---------------------------- MODULE Spec2Model ----------------------------
(***************************************************************************)
(* Model of the colour-blindness simulator: the colour pipeline of         *)
(* src/src/colorUtils.js, the matrix dataset of src/src/matrices.js and    *)
(* the image pipeline of the App component in src/src/App.js.              *)
(*                                                                         *)
(* Real numbers are fixed-point integers with eight decimals (x stands for *)
(* x / Scale).  TLC integers are 32 bits wide, so products go through      *)
(* MulFix, which multiplies by halves, and quotients through DivFix, which *)
(* is a long division.  NaN is one value outside the fixed-point range.    *)
(***************************************************************************)
EXTENDS Integers, Sequences, FiniteSets, TLC

VARIABLES
    args,       \* a call of applyColorMatrix: [rgb, matrix, strength]
    result,     \* what the call did: [kind, value]; kind "pending" before it
    loop,       \* the pixel loop of processImage: [orig, data, i, matrix, strength]
    par,        \* the pixel loop run by workers: [orig, data, matrix, strength, todo, held, order]
    mode,               \* useState('normal')
    algorithm,          \* useState('machado')
    strength,           \* useState(0.5), in tenths
    debouncedStrength,  \* useDebounce: debouncedValue
    debounceTimer,      \* useDebounce: the pending setTimeout, << >> or <<value>>
    uploadedImage,      \* useState(null): << >> or <<[url, img]>>
    loading,            \* useState(false)
    procTimer,          \* the pending setTimeout of the processing effect:
                        \* << >> or <<the processImage closure>>
    debounceDue,        \* the pending debounce timeout was set before the
                        \* pending processing timeout: it fires first
    runs,               \* the Image objects whose load is in flight, each
                        \* with the closure of its processImage call
    imageCanvas,        \* the pixels of the hidden canvas
    outputCanvas,       \* [mounted, frame]: the output canvas element
    uploads,            \* object URLs created so far
    started             \* processImage runs started so far

None == "none"

callVars == << args, result, loop, par >>
canvasVars == << imageCanvas, outputCanvas >>

appVars == << mode, algorithm, strength, debouncedStrength, debounceTimer,
             uploadedImage, loading, procTimer, debounceDue, runs, imageCanvas,
             outputCanvas, uploads, started >>

vars == << args, result, loop, par, mode, algorithm, strength, debouncedStrength,
          debounceTimer, uploadedImage, loading, procTimer, debounceDue, runs,
          imageCanvas, outputCanvas, uploads, started >>

----------------------------------------------------------------------------
(* Fixed-point arithmetic *)

HalfScale == 100 * 100
Scale == HalfScale * HalfScale
FracDigits == 4 + 4

\* the IEEE NaN of the JavaScript arithmetic
NaN == 0 - 2000 * 1000 * 1000

IsNaN(x) == x = NaN

Abs(x) == IF x < 0 THEN 0 - x ELSE x

\* a * b of two non-negative fixed-point numbers, truncated
MulPos(a, b) ==
    LET ah == a \div HalfScale
        al == a % HalfScale
        bh == b \div HalfScale
        bl == b % HalfScale
    IN  ah * bh + (ah * bl + al * bh + (al * bl) \div HalfScale) \div HalfScale

\* a * b of two fixed-point numbers
MulFix(a, b) ==
    IF (a < 0) = (b < 0) THEN MulPos(Abs(a), Abs(b))
    ELSE 0 - MulPos(Abs(a), Abs(b))

\* the digits of rem / d after the point, by long division (0 <= rem < d)
RECURSIVE LongDiv(_, _, _, _)
LongDiv(rem, d, digits, acc) ==
    IF digits = 0 THEN acc
    ELSE LongDiv((rem * 10) % d, d, digits - 1, acc * 10 + (rem * 10) \div d)

\* n / d as a fixed-point number, for integers n >= 0 and d > 0
QuotPos(n, d) == (n \div d) * Scale + LongDiv(n % d, d, FracDigits, 0)

\* a / b of two fixed-point numbers, b > 0 (the scales cancel)
DivFix(a, b) == IF a < 0 THEN 0 - QuotPos(0 - a, b) ELSE QuotPos(a, b)

\* x^2, x^4, x^5, x^12 by repeated multiplication
Sq(x) == MulPos(x, x)
Pow5(x) == MulPos(Sq(Sq(x)), x)
Pow12(x) == LET x4 == Sq(Sq(x)) IN MulPos(Sq(x4), x4)

\* the largest r in lo..hi with Pow5(r) <= x
RECURSIVE Root5(_, _, _)
Root5(x, lo, hi) ==
    IF lo >= hi THEN lo
    ELSE LET mid == (lo + hi + 1) \div 2
         IN  IF Pow5(mid) <= x THEN Root5(x, mid, hi) ELSE Root5(x, lo, mid - 1)

\* the largest r in lo..hi with Pow12(r) <= x
RECURSIVE Root12(_, _, _)
Root12(x, lo, hi) ==
    IF lo >= hi THEN lo
    ELSE LET mid == (lo + hi + 1) \div 2
         IN  IF Pow12(mid) <= x THEN Root12(x, mid, hi) ELSE Root12(x, lo, mid - 1)

\* the largest base the roots are searched up to: 1.2 (1.2^12 < 9)
RootMax == 12 * (Scale \div 10)

\* Math.pow(x, 2.4) for 0 <= x: x^2.4 = x^2 * (x^(1/5))^2
PowGamma(x) == MulPos(Sq(x), Sq(Root5(x, 0, RootMax)))

\* Math.pow(x, 1 / 2.4) for 0 <= x: x^(5/12) = (x^(1/12))^5
PowInvGamma(x) == Pow5(Root12(x, 0, RootMax))

\* Math.round of a fixed-point number: the nearest integer, halves upwards
MathRound(x) == IF IsNaN(x) THEN NaN ELSE (x + Scale \div 2) \div Scale

\* Math.max(a, b) and Math.min(a, b) of integers, NaN if either is NaN
MathMax(a, b) == IF IsNaN(a) \/ IsNaN(b) THEN NaN ELSE IF a >= b THEN a ELSE b
MathMin(a, b) == IF IsNaN(a) \/ IsNaN(b) THEN NaN ELSE IF a <= b THEN a ELSE b

----------------------------------------------------------------------------
(* src/src/colorUtils.js *)

\* the 8-bit channel maximum, 255
ChannelMax == 255

\* 0.04045 and 0.0031308, the thresholds of the two piecewise conversions
SrgbThreshold == 4045000
LinearThreshold == 313080

\* 0.055 and 1.055, the offset and the gain of the power branches
GammaOffset == 5500000
GammaGain == 105500000

\* 12.92 in hundredths: the slope of the linear branches
LinearSlopeHundredths == 1292

\* c / 12.92 and 12.92 * c
DivSlope(c) == IF c < 0 THEN 0 - ((0 - c) * 100) \div LinearSlopeHundredths
               ELSE (c * 100) \div LinearSlopeHundredths
MulSlope(c) == MulFix(c, LinearSlopeHundredths * (Scale \div 100))

\* srgbToLinear(c): sRGB value to linear RGB
srgbToLinear(c) ==
    IF c <= SrgbThreshold THEN DivSlope(c)
    ELSE PowGamma(DivFix(c + GammaOffset, GammaGain))

\* linearToSrgb without the offset of the power branch
linearToSrgbNoOffset(c) ==
    IF IsNaN(c) THEN NaN
    ELSE IF c <= LinearThreshold THEN MulFix(c, LinearSlopeHundredths * (Scale \div 100))
    ELSE MulFix(GammaGain, PowInvGamma(c))

\* linearToSrgb that leaves the value in linear space
linearToSrgbLinear(c) == c + 0

\* linearToSrgb that raises every negative value to the power 1 / 2.4:
\* Math.pow of a negative base and a fractional exponent is NaN
linearToSrgbPowerOfNegative(c) ==
    IF IsNaN(c) THEN NaN
    ELSE IF c < 0 THEN NaN
    ELSE IF c <= LinearThreshold THEN MulSlope(c)
    ELSE MulFix(GammaGain, PowInvGamma(c)) - GammaOffset

\* linearToSrgb(c): linear RGB value to sRGB; NaN <= x is false and
\* Math.pow(NaN, y) is NaN
linearToSrgb(c) ==
    IF IsNaN(c) THEN NaN
    ELSE IF c <= LinearThreshold THEN MulSlope(c)
    ELSE MulFix(GammaGain, PowInvGamma(c)) - GammaOffset

\* matrix[i][j]: an index past the end of a row reads undefined
Entry(matrix, i, j) == IF j <= Len(matrix[i]) THEN matrix[i][j] ELSE NaN

\* matrix[i][0] * R + matrix[i][1] * G + matrix[i][2] * B; undefined * x is NaN
RowTimes(matrix, i, R, G, B) ==
    IF \E j \in 1..3 : IsNaN(Entry(matrix, i, j)) THEN NaN
    ELSE MulFix(Entry(matrix, i, 1), R) + MulFix(Entry(matrix, i, 2), G)
           + MulFix(Entry(matrix, i, 3), B)

\* Math.round(x * 255) for a fixed-point x
RoundTimes255(x) ==
    IF IsNaN(x) THEN NaN
    ELSE ((x \div HalfScale) * ChannelMax
            + ((x % HalfScale) * ChannelMax + Scale \div 2) \div HalfScale)
         \div HalfScale

\* the conversion to 0..255 without the clamp
ClampChannelMissing(xSim) == RoundTimes255(xSim)

\* Math.min(255, Math.max(0, Math.round(xSim * 255)))
ClampChannel(xSim) == MathMin(ChannelMax, MathMax(0, RoundTimes255(xSim)))

\* strength is a multiple of the slider's step 0.1, counted in tenths
StrengthDen == 10

\* the blend with the two weights exchanged
BlendSwapped(channel, sim, s) ==
    IF IsNaN(sim) THEN NaN
    ELSE (2 * (channel * s + sim * (StrengthDen - s)) + StrengthDen)
            \div (2 * StrengthDen)

\* Math.round(channel * (1 - strength) + sim * strength); NaN * 0 is NaN
Blend(channel, sim, s) ==
    IF IsNaN(sim) THEN NaN
    ELSE (2 * (channel * (StrengthDen - s) + sim * s) + StrengthDen)
            \div (2 * StrengthDen)

\* rLin, gLin, bLin: the matrix applied to the linear colour
LinearColor(rgb, matrix) ==
    LET R == srgbToLinear(DivFix(rgb[1], ChannelMax))
        G == srgbToLinear(DivFix(rgb[2], ChannelMax))
        B == srgbToLinear(DivFix(rgb[3], ChannelMax))
    IN  [i \in 1..3 |-> RowTimes(matrix, i, R, G, B)]

\* the simulated colour before the blend (simColor)
SimColor(rgb, matrix) ==
    LET R == srgbToLinear(DivFix(rgb[1], ChannelMax))
        G == srgbToLinear(DivFix(rgb[2], ChannelMax))
        B == srgbToLinear(DivFix(rgb[3], ChannelMax))
    IN  << ClampChannel(linearToSrgb(RowTimes(matrix, 1, R, G, B))),
           ClampChannel(linearToSrgb(RowTimes(matrix, 2, R, G, B))),
           ClampChannel(linearToSrgb(RowTimes(matrix, 3, R, G, B))) >>

\* applyColorMatrix([r, g, b], matrix, strength), for a matrix of three rows
applyColorMatrix(rgb, matrix, s) ==
    LET simColor == SimColor(rgb, matrix)
    IN  [i \in 1..3 |-> Blend(rgb[i], simColor[i], s)]

----------------------------------------------------------------------------
(* src/src/matrices.js *)

colorBlindMatrices ==
    [
      normal |->
          [ matrix |->
            << <<100000000, 0, 0>>,
               <<0, 100000000, 0>>,
               <<0, 0, 100000000>> >> ],
      protanopia |->
          [ algorithms |->
            [ brettel |->
                  << <<0, 105118294, -5116099>>,
                     <<0, 100000000, 0>>,
                     <<0, 0, 100000000>> >>,
              vienot |->
                  << <<15228600, 105258300, -20486800>>,
                     <<11450300, 78628100, 9921600>>,
                     <<-388200, -4811600, 105199800>> >>,
              machado |->
                  << <<56700000, 43300000, 0>>,
                     <<55800000, 44200000, 0>>,
                     <<0, 24200000, 75800000>> >> ] ],
      protanomaly |->
          [ algorithms |->
            [ brettel |->
                  << <<81700000, 18300000, 0>>,
                     <<33300000, 66700000, 0>>,
                     <<0, 12500000, 87500000>> >>,
              vienot |->
                  << <<81500000, 18500000, 0>>,
                     <<31800000, 68200000, 0>>,
                     <<0, 11000000, 89000000>> >>,
              machado |->
                  << <<81700000, 18300000, 0>>,
                     <<33300000, 66700000, 0>>,
                     <<0, 12500000, 87500000>> >> ] ],
      deuteranopia |->
          [ algorithms |->
            [ brettel |->
                  << <<100000000, 0, 0>>,
                     <<95130920, 0, 4866992>>,
                     <<0, 0, 100000000>> >>,
              vienot |->
                  << <<36732200, 86064600, -22796800>>,
                     <<28008500, 67250100, 4741300>>,
                     <<-1182000, 4294000, 96888100>> >>,
              machado |->
                  << <<100000000, 0, 0>>,
                     <<95130920, 0, 4866992>>,
                     <<0, 0, 100000000>> >> ] ],
      deuteranomaly |->
          [ algorithms |->
            [ brettel |->
                  << <<80000000, 20000000, 0>>,
                     <<25800000, 74200000, 0>>,
                     <<0, 14200000, 85800000>> >>,
              vienot |->
                  << <<80000000, 20000000, 0>>,
                     <<25500000, 74500000, 0>>,
                     <<0, 13000000, 87000000>> >>,
              machado |->
                  << <<80000000, 20000000, 0>>,
                     <<25800000, 74200000, 0>>,
                     <<0, 14200000, 85800000>> >> ] ],
      tritanopia |->
          [ algorithms |->
            [ brettel |->
                  << <<100000000, 0, 0>>,
                     <<0, 100000000, 0>>,
                     <<-86744736, 186727089, 0>> >>,
              vienot |->
                  << <<125552800, -7674900, -17877900>>,
                     <<-7841100, 93080900, 14760200>>,
                     <<473300, 69136700, 30390000>> >>,
              machado |->
                  << <<100000000, 0, 0>>,
                     <<0, 100000000, 0>>,
                     <<-86744736, 186727089, 0>> >> ] ],
      tritanomaly |->
          [ algorithms |->
            [ brettel |->
                  << <<96700000, 3300000, 0>>,
                     <<0, 73300000, 26700000>>,
                     <<0, 18300000, 81700000>> >>,
              vienot |->
                  << <<97000000, 3000000, 0>>,
                     <<0, 72000000, 28000000>>,
                     <<0, 18000000, 82000000>> >>,
              machado |->
                  << <<96700000, 3300000, 0>>,
                     <<0, 73300000, 26700000>>,
                     <<0, 18300000, 81700000>> >> ] ],
      achromatopsia |->
          [ matrix |->
            << <<29900000, 58700000, 11400000>>,
               <<29900000, 58700000, 11400000>>,
               <<29900000, 58700000, 11400000>> >> ]
    ]

\* the mode keys, in the order of the dataset
Modes == { "normal", "protanopia", "protanomaly", "deuteranopia", "deuteranomaly",
           "tritanopia", "tritanomaly", "achromatopsia" }

\* Object.keys(colorBlindMode.algorithms), or [] for a mode without algorithms
AlgorithmKeys(m) ==
    IF "algorithms" \in DOMAIN colorBlindMatrices[m]
    THEN DOMAIN colorBlindMatrices[m].algorithms
    ELSE {}

\* the matrix the App selects for a mode and an algorithm
SelectMatrix(m, a) ==
    IF m = "normal" \/ m = "achromatopsia"
    THEN colorBlindMatrices[m].matrix
    ELSE colorBlindMatrices[m].algorithms[a]

----------------------------------------------------------------------------
(* A call of applyColorMatrix, as JavaScript evaluates it *)

\* an RGBColor: three integer channels in 0..255
InRange(rgb) == \A i \in 1..3 : rgb[i] \in 0..ChannelMax

\* a matrix of exactly three rows of three entries
Is3x3(matrix) == Len(matrix) = 3 /\ \A i \in 1..3 : Len(matrix[i]) = 3

\* applyColorMatrix behind a precondition check
applyColorMatrixChecked(rgb, matrix, s) ==
    IF ~Is3x3(matrix) THEN [kind |-> "InvalidMatrixShape", value |-> << >>]
    ELSE IF ~InRange(rgb) THEN [kind |-> "InvalidChannelValue", value |-> << >>]
    ELSE [kind |-> "returned", value |-> applyColorMatrix(rgb, matrix, s)]

\* reading matrix[i][0] of a missing row throws a TypeError; nothing else
\* in the function throws or validates
applyColorMatrixCall(rgb, matrix, s) ==
    IF Len(matrix) < 3 THEN [kind |-> "TypeError", value |-> << >>]
    ELSE [kind |-> "returned", value |-> applyColorMatrix(rgb, matrix, s)]

\* the channel values the calls are drawn from
NumChannelSamples == 4
Palette == << 255, 0, 100, 150, 200, 128, 30, 76 >>
ChannelSamples == { Palette[i] : i \in 1..NumChannelSamples }
RgbSamples == ChannelSamples \X ChannelSamples \X ChannelSamples
GrayRamp == { <<c, c, c>> : c \in 0..ChannelMax }

\* the colours of the scenarios of the specification
ScenarioRgb == { <<255, 0, 0>>, <<100, 150, 200>>, <<10, 20, 30>> }

\* channel values outside 0..255
BadRgbSamples == { <<300, 0, 0>>, <<0, 0 - 5, 0>>, <<256, 256, 256>>, <<100, 150, 0 - 1>> }

\* the strengths of the slider, in tenths, at which the blend of the
\* double arithmetic is exact (0.3, 0.7 and 0.9 decide an exact half by
\* their representation error)
Strengths == { 0, 1, 2, 4, 5, 6, 8, 10 }

\* every matrix of the dataset
DatasetMatrices ==
    { SelectMatrix(m, "machado") : m \in Modes }
      \cup { colorBlindMatrices[m].algorithms[a] :
               m \in { k \in Modes : AlgorithmKeys(k) # {} },
               a \in { "brettel", "vienot", "machado" } }

IdentityMatrix == colorBlindMatrices.normal.matrix

\* matrices outside the dataset: every entry 2, every entry -0.5
ConstMatrix(v) == [i \in 1..3 |-> [j \in 1..3 |-> v]]
ExtremeMatrices == { ConstMatrix(2 * Scale), ConstMatrix(0 - Scale \div 2) }

\* matrices that are not 3x3: no row, two rows, rows of two, 4x4
MalformedMatrices ==
    { << >>,
      << <<Scale, 0, 0>>, <<0, Scale, 0>> >>,
      << <<Scale, 0>>, <<0, Scale>>, <<0, 0>> >>,
      << <<Scale, 0, 0>>, <<0, Scale, 0>>, <<0, 0>> >>,
      [i \in 1..4 |-> [j \in 1..4 |-> IF i = j THEN Scale ELSE 0]] }

CallInputs ==
    [rgb : RgbSamples, matrix : DatasetMatrices \cup ExtremeMatrices, strength : Strengths]
      \cup [rgb : GrayRamp, matrix : {IdentityMatrix}, strength : Strengths]
      \cup [rgb : ScenarioRgb, matrix : DatasetMatrices, strength : Strengths]
      \cup [rgb : BadRgbSamples, matrix : DatasetMatrices, strength : {0, 5, 10}]
      \cup [rgb : ScenarioRgb, matrix : MalformedMatrices,
            strength : {0, 5, 10}]

Pending == [kind |-> "pending", value |-> << >>]

----------------------------------------------------------------------------
(* The pixel loop of processImage, src/src/App.js lines 82-95 *)

\* a store into the Uint8ClampedArray imageData.data
StoreClamped(v) == IF IsNaN(v) THEN 0 ELSE IF v < 0 THEN 0
                   ELSE IF v > ChannelMax THEN ChannelMax ELSE v

\* a read that mixes in the red sample of the pixel before
ReadPixelSmeared(data, i) ==
    << IF i >= 4 THEN (data[i + 1] + data[i - 3]) \div 2 ELSE data[i + 1],
       data[i + 2], data[i + 3] >>

\* const rgb = [data[i], data[i + 1], data[i + 2]]  (data[i] is data[i + 1] here)
ReadPixel(data, i) == << data[i + 1], data[i + 2], data[i + 3] >>

\* a write that also makes the pixel opaque
WritePixelOpaque(data, i, simRgb) ==
    [data EXCEPT ![i + 1] = StoreClamped(simRgb[1]),
                 ![i + 2] = StoreClamped(simRgb[2]),
                 ![i + 3] = StoreClamped(simRgb[3]),
                 ![i + 4] = ChannelMax]

\* data[i] = simRgb[0]; data[i + 1] = simRgb[1]; data[i + 2] = simRgb[2]
WritePixel(data, i, simRgb) ==
    [data EXCEPT ![i + 1] = StoreClamped(simRgb[1]),
                 ![i + 2] = StoreClamped(simRgb[2]),
                 ![i + 3] = StoreClamped(simRgb[3])]

\* one iteration of the loop
LoopBody(data, i, matrix, s) ==
    WritePixel(data, i, applyColorMatrix(ReadPixel(data, i), matrix, s))

\* a loop that is left after its first iteration
BulkLoopInterrupted(data, i, matrix, s) ==
    IF i < Len(data) THEN LoopBody(data, i, matrix, s) ELSE data

\* for (let i = 0; i < data.length; i += 4) { ... }, from index i on
RECURSIVE BulkLoop(_, _, _, _)
BulkLoop(data, i, matrix, s) ==
    IF i < Len(data) THEN BulkLoop(LoopBody(data, i, matrix, s), i + 4,
                                   matrix, s)
    ELSE data

\* the pixels (R, G, B, A) the buffers are made of
PixelSamples == { <<10, 20, 30, 255>>, <<255, 0, 0, 128>>, <<100, 150, 200, 0>> }

\* the buffers of up to MaxPixels pixels
MaxPixels == 2
RECURSIVE BuffersOf(_)
BuffersOf(n) ==
    IF n = 0 THEN { << >> }
    ELSE { b \o p : b \in BuffersOf(n - 1), p \in PixelSamples }
Buffers == UNION { BuffersOf(n) : n \in 0..MaxPixels }

\* the matrices and strengths the loops are run with
LoopMatrices ==
    { colorBlindMatrices.normal.matrix,
      colorBlindMatrices.achromatopsia.matrix,
      colorBlindMatrices.protanopia.algorithms.vienot,
      colorBlindMatrices.tritanopia.algorithms.brettel }
LoopStrengths == { 0, 5, 10 }

IdleArgs == [rgb |-> <<0, 0, 0>>, matrix |-> IdentityMatrix, strength |-> 0]
IdleLoop == [orig |-> << >>, data |-> << >>, i |-> 0,
             matrix |-> IdentityMatrix, strength |-> 0]
IdlePar == [orig |-> << >>, data |-> << >>, matrix |-> IdentityMatrix,
            strength |-> 0, todo |-> {}, held |-> << >>, order |-> << >>]

\* one iteration of the for loop
LoopStep ==
    /\ loop.i < Len(loop.data)
    /\ loop' = [loop EXCEPT !.data = LoopBody(loop.data, loop.i, loop.matrix,
                                               loop.strength),
                            !.i = loop.i + 4]
    /\ UNCHANGED << args, result, par >>
    /\ UNCHANGED appVars

LoopDone == loop.i >= Len(loop.data)

----------------------------------------------------------------------------
(* The same per-pixel steps, taken by workers in any order *)

Workers == 1..2

PixelCount(data) == Len(data) \div 4

\* worker w takes a pixel group nobody has taken and reads its triple
ParRead(w, i) ==
    /\ par.held[w] = << >>
    /\ i \in par.todo
    /\ par' = [par EXCEPT !.todo = par.todo \ {i},
                          !.held[w] = << [i |-> i, rgb |-> ReadPixel(par.data, i)] >>]
    /\ UNCHANGED << args, result, loop >>
    /\ UNCHANGED appVars

\* worker w transforms the triple it holds and writes it back
ParWrite(w) ==
    /\ par.held[w] # << >>
    /\ par' = [par EXCEPT
                 !.data = WritePixel(par.data, par.held[w][1].i,
                              applyColorMatrix(par.held[w][1].rgb, par.matrix,
                                               par.strength)),
                 !.held[w] = << >>,
                 !.order = Append(par.order, par.held[w][1].i)]
    /\ UNCHANGED << args, result, loop >>
    /\ UNCHANGED appVars

ParDone == par.todo = {} /\ \A w \in Workers : par.held[w] = << >>

----------------------------------------------------------------------------
(* The App component, src/src/App.js.  An action is one event handler or    *)
(* callback together with the render and the effects it causes.             *)

\* the uploaded file, after decoding and the 50% drawImage: its pixels
ImagePixels(img) == <<255, 0, 0, 255, 100, 150, 200, 128>>
Images == { 1 }

\* the identity of the selected matrix object: the mode and the key under it
MatrixRef(m, a) ==
    IF m = "normal" \/ m = "achromatopsia" THEN <<m, "matrix">> ELSE <<m, a>>

MatrixOf(ref) ==
    IF ref[2] = "matrix" THEN colorBlindMatrices[ref[1]].matrix
    ELSE colorBlindMatrices[ref[1]].algorithms[ref[2]]

\* the dependencies [uploadedImage, matrix, debouncedStrength] of processImage
\* and of the processing effect
Deps(m, a, u, d) == << u, MatrixRef(m, a), d >>

\* the closure of processImage in a render with an uploaded image
Closure(m, a, u, d) ==
    [url |-> u[1].url, img |-> u[1].img, matrix |-> MatrixRef(m, a), strength |-> d]

\* the processing effect after a render: when a dependency changed, its
\* cleanup clears the pending timeout and it sets a new one if an image is
\* uploaded
EffectTimer(m, a, u, d) ==
    IF Deps(m, a, u, d) = Deps(mode, algorithm, uploadedImage, debouncedStrength)
    THEN procTimer
    ELSE IF u = << >> THEN << >>
    ELSE << Closure(m, a, u, d) >>

\* the delays of the two timeouts, in milliseconds
DebounceDelay == 100
ProcessDelay == 300

\* after the same render: is a debounce timeout that is pending now due
\* before the processing timeout?  A timeout set no later and with a shorter
\* delay fires first; one set later may fire before or after.
EffectDue(m, a, u, d) ==
    IF Deps(m, a, u, d) = Deps(mode, algorithm, uploadedImage, debouncedStrength)
    THEN debounceDue
    ELSE u # << >> /\ debounceTimer # << >> /\ DebounceDelay <= ProcessDelay

\* the bounds of the model: uploads and processImage runs
MaxUploads == 2
MaxRuns == 2

InitApp ==
    /\ mode = "normal"
    /\ algorithm = "machado"
    /\ strength = 5
    /\ debouncedStrength = 5
    /\ debounceTimer = << 5 >>
    /\ uploadedImage = << >>
    /\ loading = FALSE
    /\ procTimer = << >>
    /\ debounceDue = FALSE
    /\ runs = << >>
    /\ imageCanvas = << >>
    /\ outputCanvas = [mounted |-> FALSE, frame |-> << >>]
    /\ uploads = 0
    /\ started = 0

\* a mode button that resets the algorithm to a key no mode defines
ClickModeResetDefault(key) ==
    /\ mode' = key
    /\ algorithm' = "default"
    /\ procTimer' = EffectTimer(key, "default", uploadedImage, debouncedStrength)
    /\ debounceDue' = EffectDue(key, "default", uploadedImage, debouncedStrength)
    /\ UNCHANGED << strength, debouncedStrength, debounceTimer, uploadedImage,
                    loading, runs, uploads, started >>
    /\ UNCHANGED canvasVars
    /\ UNCHANGED callVars

\* a mode button: setMode(key); setAlgorithm('machado')
ClickMode(key) ==
    /\ mode' = key
    /\ algorithm' = "machado"
    /\ procTimer' = EffectTimer(key, "machado", uploadedImage, debouncedStrength)
    /\ debounceDue' = EffectDue(key, "machado", uploadedImage, debouncedStrength)
    /\ UNCHANGED << strength, debouncedStrength, debounceTimer, uploadedImage,
                    loading, runs, uploads, started >>
    /\ UNCHANGED canvasVars
    /\ UNCHANGED callVars

\* an algorithm button, rendered for a mode with algorithms: setAlgorithm(algoKey)
ClickAlgorithm(algoKey) ==
    /\ mode # "normal" /\ mode # "achromatopsia"
    /\ algoKey \in AlgorithmKeys(mode)
    /\ algorithm' = algoKey
    /\ procTimer' = EffectTimer(mode, algoKey, uploadedImage, debouncedStrength)
    /\ debounceDue' = EffectDue(mode, algoKey, uploadedImage, debouncedStrength)
    /\ UNCHANGED << mode, strength, debouncedStrength, debounceTimer, uploadedImage,
                    loading, runs, uploads, started >>
    /\ UNCHANGED canvasVars
    /\ UNCHANGED callVars

\* the slider: setStrength(v); the debounce effect clears its timeout and
\* sets a new one
ChangeStrength(v) ==
    /\ v # strength
    /\ strength' = v
    /\ debounceTimer' = << v >>
    /\ debounceDue' = FALSE
    /\ UNCHANGED << mode, algorithm, debouncedStrength, uploadedImage, loading,
                    procTimer, runs, uploads, started >>
    /\ UNCHANGED canvasVars
    /\ UNCHANGED callVars

\* the debounce timeout: setDebouncedValue(value)
DebounceFire ==
    /\ debounceTimer # << >>
    /\ debouncedStrength' = debounceTimer[1]
    /\ debounceTimer' = << >>
    /\ procTimer' = EffectTimer(mode, algorithm, uploadedImage, debounceTimer[1])
    /\ debounceDue' = FALSE
    /\ UNCHANGED << mode, algorithm, strength, uploadedImage, loading, runs,
                    uploads, started >>
    /\ UNCHANGED canvasVars
    /\ UNCHANGED callVars

\* handleFileChange with a valid image file: setUploadedImage(url) with a new
\* object URL; the render mounts the output canvas if it was not mounted
Upload(img) ==
    /\ uploads < MaxUploads
    /\ uploads' = uploads + 1
    /\ uploadedImage' = << [url |-> uploads + 1, img |-> img] >>
    /\ outputCanvas' = IF outputCanvas.mounted THEN outputCanvas
                       ELSE [mounted |-> TRUE, frame |-> << >>]
    /\ procTimer' = EffectTimer(mode, algorithm, uploadedImage', debouncedStrength)
    /\ debounceDue' = EffectDue(mode, algorithm, uploadedImage', debouncedStrength)
    /\ UNCHANGED << mode, algorithm, strength, debouncedStrength, debounceTimer,
                    loading, runs, imageCanvas, started >>
    /\ UNCHANGED callVars

\* the Clear Image button: setUploadedImage(null); the render unmounts the
\* output canvas
ClearImage ==
    /\ uploadedImage # << >>
    /\ uploadedImage' = << >>
    /\ outputCanvas' = [mounted |-> FALSE, frame |-> << >>]
    /\ procTimer' = EffectTimer(mode, algorithm, << >>, debouncedStrength)
    /\ debounceDue' = FALSE
    /\ UNCHANGED << mode, algorithm, strength, debouncedStrength, debounceTimer,
                    loading, runs, imageCanvas, uploads, started >>
    /\ UNCHANGED callVars

\* the timeout of the processing effect: processImage() if both refs are set;
\* processImage sets loading and starts the load of a new Image
ProcTimerFire ==
    /\ procTimer # << >>
    /\ ~debounceDue
    /\ started < MaxRuns
    /\ procTimer' = << >>
    /\ debounceDue' = FALSE
    /\ IF outputCanvas.mounted
       THEN /\ loading' = TRUE
            /\ runs' = Append(runs, procTimer[1])
            /\ started' = started + 1
       ELSE UNCHANGED << loading, runs, started >>
    /\ UNCHANGED << mode, algorithm, strength, debouncedStrength, debounceTimer,
                    uploadedImage, uploads >>
    /\ UNCHANGED canvasVars
    /\ UNCHANGED callVars

Remove(seq, k) == SubSeq(seq, 1, k - 1) \o SubSeq(seq, k + 1, Len(seq))

\* the object URL of a run has been revoked: another image was uploaded or
\* the image was cleared
Revoked(run) ==
    IF uploadedImage = << >> THEN TRUE ELSE uploadedImage[1].url # run.url

\* the modes and strengths the user picks in the image pipeline
ModeInputs == { "normal", "protanomaly" }
StrengthInputs == { 5, 10 }

\* the matrix objects the user can select with them
MatrixRefs == { MatrixRef(m, a) : m \in ModeInputs, a \in { "brettel", "vienot", "machado" } }

\* the imageData.data a run leaves after its pixel loop, for every closure a
\* run can have (evaluated once)
LoopOutput ==
    [img \in Images, ref \in MatrixRefs, st \in StrengthInputs |->
        BulkLoop(ImagePixels(img), 0, MatrixOf(ref), st)]

\* an onload that does not redraw a hidden canvas that already has pixels
\* and transforms the hidden canvas in place
ImageLoadInPlace(k) ==
    /\ k \in 1..Len(runs)
    /\ LET run == runs[k]
           source == IF imageCanvas = << >> THEN ImagePixels(run.img) ELSE imageCanvas
           data == BulkLoop(source, 0, MatrixOf(run.matrix), run.strength)
       IN  /\ imageCanvas' = data
           /\ IF outputCanvas.mounted
              THEN /\ outputCanvas' = [mounted |-> TRUE,
                                       frame |-> << [data |-> data, run |-> run] >>]
                   /\ loading' = FALSE
              ELSE UNCHANGED << outputCanvas, loading >>
    /\ runs' = Remove(runs, k)
    /\ UNCHANGED << mode, algorithm, strength, debouncedStrength, debounceTimer,
                    uploadedImage, procTimer, debounceDue, uploads, started >>
    /\ UNCHANGED callVars

\* img.onload of run k: draw the image on the hidden canvas, transform a copy
\* of its pixels, put the copy on the output canvas, setLoading(false).
\* With the output canvas unmounted, outputCanvas.width throws a TypeError
\* before anything is published.
ImageLoad(k) ==
    /\ k \in 1..Len(runs)
    /\ LET run == runs[k]
           data == LoopOutput[run.img, run.matrix, run.strength]
       IN  /\ imageCanvas' = ImagePixels(run.img)
           /\ IF outputCanvas.mounted
              THEN /\ outputCanvas' = [mounted |-> TRUE,
                                       frame |-> << [data |-> data, run |-> run] >>]
                   /\ loading' = FALSE
              ELSE UNCHANGED << outputCanvas, loading >>
    /\ runs' = Remove(runs, k)
    /\ UNCHANGED << mode, algorithm, strength, debouncedStrength, debounceTimer,
                    uploadedImage, procTimer, debounceDue, uploads, started >>
    /\ UNCHANGED callVars

\* img.onerror of run k, whose object URL was revoked before the load
\* finished: setLoading(false)
ImageError(k) ==
    /\ k \in 1..Len(runs)
    /\ Revoked(runs[k])
    /\ loading' = FALSE
    /\ runs' = Remove(runs, k)
    /\ UNCHANGED << mode, algorithm, strength, debouncedStrength, debounceTimer,
                    uploadedImage, procTimer, debounceDue, uploads, started >>
    /\ UNCHANGED canvasVars
    /\ UNCHANGED callVars

----------------------------------------------------------------------------
(* Specifications *)

\* getImageData has copied the canvas (orig) into data; the loop starts
InitLoop ==
    /\ loop \in { [orig |-> b, data |-> b, i |-> 0, matrix |-> m, strength |-> s] :
                    b \in Buffers, m \in LoopMatrices, s \in LoopStrengths }
    /\ args = IdleArgs
    /\ result = Pending
    /\ par = IdlePar
    /\ InitApp

InitPar ==
    /\ par \in { [orig |-> b, data |-> b, matrix |-> m, strength |-> s,
                  todo |-> { 4 * p : p \in 0..(PixelCount(b) - 1) },
                  held |-> [w \in Workers |-> << >>], order |-> << >>] :
                    b \in Buffers, m \in LoopMatrices, s \in {5, 10} }
    /\ args = IdleArgs
    /\ result = Pending
    /\ loop = IdleLoop
    /\ InitApp

InitCall ==
    /\ args \in CallInputs
    /\ result = Pending
    /\ loop = IdleLoop
    /\ par = IdlePar
    /\ InitApp

\* the caller evaluates applyColorMatrix(rgb, matrix, strength)
Call ==
    /\ result.kind = "pending"
    /\ result' = applyColorMatrixCall(args.rgb, args.matrix, args.strength)
    /\ UNCHANGED << args, loop, par >>
    /\ UNCHANGED appVars


NextPure == Call
SpecPure == InitCall /\ [][NextPure]_vars

NextLoop == LoopStep
SpecLoop == InitLoop /\ [][NextLoop]_vars

Init ==
    /\ InitApp
    /\ args = IdleArgs
    /\ result = Pending
    /\ loop = IdleLoop
    /\ par = IdlePar

Next ==
    \/ \E key \in ModeInputs : ClickMode(key)
    \/ \E algoKey \in { "brettel", "vienot", "machado" } : ClickAlgorithm(algoKey)
    \/ \E v \in StrengthInputs : ChangeStrength(v)
    \/ DebounceFire
    \/ \E img \in Images : Upload(img)
    \/ ClearImage
    \/ ProcTimerFire
    \/ \E k \in 1..MaxRuns : ImageLoad(k)
    \/ \E k \in 1..MaxRuns : ImageError(k)

Spec == Init /\ [][Next]_vars

\* the controls alone, with every mode and every slider position
NextUI ==
    \/ \E key \in Modes : ClickMode(key)
    \/ \E algoKey \in { "brettel", "vienot", "machado" } : ClickAlgorithm(algoKey)
    \/ \E v \in 0..StrengthDen : ChangeStrength(v)
    \/ DebounceFire

SpecUI == Init /\ [][NextUI]_vars

NextPar == \E w \in Workers : (\E i \in par.todo : ParRead(w, i)) \/ ParWrite(w)
SpecPar == InitPar /\ [][NextPar]_vars

----------------------------------------------------------------------------
(* Claims about applyColorMatrix, checked under SpecPure *)

Returned == result.kind = "returned"

\* C1: at strength 0 applyColorMatrix returns the input colour exactly, for
\* every RGBColor and every matrix of the dataset.
C1_ZeroStrengthIdentity ==
    (Returned /\ args.strength = 0 /\ InRange(args.rgb)
        /\ args.matrix \in DatasetMatrices)
    => result.value = args.rgb

\* a call at strength 0 whose simulated colour differs from the input
C1_Witness ==
    /\ Returned /\ args.strength = 0
    /\ args.rgb = <<255, 0, 0>>
    /\ args.matrix = colorBlindMatrices.achromatopsia.matrix
    /\ SimColor(args.rgb, args.matrix) # args.rgb
    /\ result.value = <<255, 0, 0>>

\* C2: for an RGBColor in range, a strength in [0,1] and any 3x3 matrix,
\* every returned channel is an integer in 0..255.
C2_ChannelsInRange ==
    (Returned /\ InRange(args.rgb) /\ Is3x3(args.matrix)
        /\ args.strength \in 0..StrengthDen)
    => \A i \in 1..3 : result.value[i] \in 0..ChannelMax

\* a call whose matrix product leaves [0,1]: the clamp is what bounds it
C2_Witness ==
    /\ Returned /\ args.matrix \in ExtremeMatrices /\ args.strength = 10
    /\ args.rgb = <<255, 255, 255>>
    /\ result.value \in { <<0, 0, 0>>, <<255, 255, 255>> }
    /\ \E i \in 1..3 : ClampChannelMissing(linearToSrgb(
            RowTimes(args.matrix, i, Scale, Scale, Scale))) \notin 0..ChannelMax

\* C4: with the identity matrix applyColorMatrix returns the input colour,
\* for every channel value 0..255 and every strength.
C4_IdentityMatrix ==
    (Returned /\ InRange(args.rgb) /\ args.matrix = IdentityMatrix)
    => result.value = args.rgb

\* the scenario of the specification: [100,150,200] at strength 0.5
C4_Witness ==
    /\ Returned /\ args.matrix = IdentityMatrix /\ args.strength = 5
    /\ args.rgb = <<100, 150, 200>>
    /\ result.value = <<100, 150, 200>>

IsRedAchromatopsia ==
    /\ Returned /\ args.rgb = <<255, 0, 0>> /\ args.strength = 10
    /\ args.matrix = colorBlindMatrices.achromatopsia.matrix

\* C5 as stated: pure red under achromatopsia at strength 1 is a gray within
\* 2 of 76 on every channel.
C5_Original ==
    IsRedAchromatopsia
    => \A i \in 1..3 : result.value[i] \in (76 - 2)..(76 + 2)

\* C5, amended: pure red under achromatopsia at strength 1 is the gray
\* [149,149,149]: the weight 0.299 applies to linear light and is then
\* gamma-encoded.
C5_RedIsGray149 == IsRedAchromatopsia => result.value = <<149, 149, 149>>

C5_Witness == IsRedAchromatopsia /\ result.value[1] = result.value[2]

\* C9 as stated: a matrix that is not 3x3 gives an InvalidMatrixShape error
\* and a channel outside 0..255 gives an InvalidChannelValue error.
C9_Original ==
    result.kind # "pending"
    => /\ ~Is3x3(args.matrix) => result.kind = "InvalidMatrixShape"
       /\ (Is3x3(args.matrix) /\ ~InRange(args.rgb))
             => result.kind = "InvalidChannelValue"

\* C9, amended: applyColorMatrix validates nothing.  A call with a channel
\* outside 0..255, or with a matrix of three or more rows that is not 3x3,
\* returns three channels (NaN where a row is short); a matrix of fewer
\* than three rows makes the property read throw a TypeError.
C9_NoValidation ==
    result.kind # "pending"
    => /\ result.kind \in { "returned", "TypeError" }
       /\ result.kind = "TypeError" <=> Len(args.matrix) < 3
       /\ Returned => Len(result.value) = 3
       /\ (Returned /\ Is3x3(args.matrix)) => \A i \in 1..3 : ~IsNaN(result.value[i])
       /\ (Returned /\ \E i \in 1..3 : Len(args.matrix[i]) < 3)
             => \E i \in 1..3 : IsNaN(result.value[i])

\* a colour computed from a channel of 300
C9_Witness ==
    /\ Returned /\ args.rgb = <<300, 0, 0>> /\ args.strength = 10
    /\ args.matrix = IdentityMatrix
    /\ result.value[1] = 255

\* a returned call on a 3x3 matrix and an RGBColor
WellFormedCall == Returned /\ InRange(args.rgb) /\ Is3x3(args.matrix)

\* C11 as stated: a linear value below 0 goes through the power branch of
\* linearToSrgb, a fractional power of a negative number, which is NaN.
C11_Original ==
    WellFormedCall
    => \A i \in 1..3 :
          LinearColor(args.rgb, args.matrix)[i] < 0
          => IsNaN(linearToSrgb(LinearColor(args.rgb, args.matrix)[i]))

\* C11, amended: a linear value below 0 is below the threshold 0.0031308, so
\* linearToSrgb takes its linear branch 12.92 * c; the result is a number
\* that is not positive, the clamp makes the simulated channel 0, and the
\* returned channel is the blend of the input channel with 0.
C11_NegativeTakesLinearBranch ==
    WellFormedCall
    => \A i \in 1..3 :
          LET lin == LinearColor(args.rgb, args.matrix)[i]
          IN  lin < 0
              => /\ linearToSrgb(lin) = MulSlope(lin)
                 /\ ~IsNaN(linearToSrgb(lin)) /\ linearToSrgb(lin) <= 0
                 /\ SimColor(args.rgb, args.matrix)[i] = 0
                 /\ result.value[i] = Blend(args.rgb[i], 0, args.strength)

\* pure blue under protanopia/brettel: the red row gives -0.05116099
C11_Witness ==
    /\ Returned /\ args.rgb = <<0, 0, 255>> /\ args.strength = 10
    /\ args.matrix = colorBlindMatrices.protanopia.algorithms.brettel
    /\ LinearColor(args.rgb, args.matrix)[1] < 0 - 5 * (Scale \div 100)
    /\ result.value = <<0, 0, 255>>

----------------------------------------------------------------------------
(* Claims about the pixel loop *)

\* C3: after the loop every alpha sample has its original value, the three
\* colour samples of every pixel are applyColorMatrix of the pixel's original
\* triple, and the buffer has no other sample.
C3_LoopResult ==
    LoopDone =>
        /\ Len(loop.data) = Len(loop.orig)
        /\ \A p \in 0..(PixelCount(loop.orig) - 1) :
              /\ loop.data[4 * p + 4] = loop.orig[4 * p + 4]
              /\ << loop.data[4 * p + 1], loop.data[4 * p + 2], loop.data[4 * p + 3] >>
                    = applyColorMatrix(<< loop.orig[4 * p + 1], loop.orig[4 * p + 2],
                                          loop.orig[4 * p + 3] >>,
                                       loop.matrix, loop.strength)

\* a finished loop over two pixels that changed colours and kept a
\* non-opaque alpha
C3_Witness ==
    /\ LoopDone /\ loop.i = 8
    /\ loop.orig = <<255, 0, 0, 128, 100, 150, 200, 0>>
    /\ loop.data # loop.orig
    /\ loop.data[4] = 128 /\ loop.data[8] = 0

\* C6: whatever the order and the interleaving of the per-pixel steps and
\* whichever worker takes which pixel group, the final buffer is the one
\* the sequential loop produces.
C6_OrderIndependent ==
    ParDone => par.data = BulkLoop(par.orig, 0, par.matrix, par.strength)

\* a finished run of two pixels in which the second pixel was written
\* before the first
C6_Witness ==
    /\ ParDone
    /\ par.order = <<4, 0>>
    /\ par.data # par.orig

----------------------------------------------------------------------------
(* Claims about the image pipeline and the dataset *)

\* the per-pixel transform applied to every pixel of a buffer independently
TransformedPixels(orig, matrix, s) ==
    [j \in 1..Len(orig) |->
        IF j % 4 = 0 THEN orig[j]
        ELSE LET base == 4 * ((j - 1) \div 4)
             IN  applyColorMatrix(<< orig[base + 1], orig[base + 2], orig[base + 3] >>,
                                  matrix, s)[j - base]]

\* the uploaded image transformed under a matrix and a strength (evaluated once)
ExpectedFrame ==
    [img \in Images, ref \in MatrixRefs, st \in StrengthInputs |->
        TransformedPixels(ImagePixels(img), MatrixOf(ref), st)]

\* C7: the output canvas holds no frame, or a frame every pixel of which
\* was transformed under one single (matrix, strength) pair.
C7_FrameWhole ==
    outputCanvas.frame # << >>
    => \E img \in Images, ref \in MatrixRefs, st \in StrengthInputs :
          outputCanvas.frame[1].data = ExpectedFrame[img, ref, st]

\* the frame of a superseded run is on display while the run for the new
\* settings is scheduled
C7_Witness ==
    /\ outputCanvas.frame # << >>
    /\ procTimer # << >>
    /\ outputCanvas.frame[1].run.matrix # MatrixRef(mode, algorithm)
    /\ outputCanvas.frame[1].data # ImagePixels(outputCanvas.frame[1].run.img)

\* nothing is scheduled and no load is in flight
Quiescent == debounceTimer = << >> /\ procTimer = << >> /\ runs = << >>

\* C8 as stated: once all scheduled and in-flight runs have completed, the
\* output canvas shows the uploaded image transformed under the latest
\* matrix and strength.
C8_Original ==
    (Quiescent /\ uploadedImage # << >>)
    => /\ debouncedStrength = strength
       /\ outputCanvas.frame # << >>
       /\ outputCanvas.frame[1].data
            = ExpectedFrame[uploadedImage[1].img, MatrixRef(mode, algorithm),
                            debouncedStrength]

\* C10 as stated, for the mode on display: exactly normal and achromatopsia
\* have a single matrix and no algorithms; every other mode has the
\* algorithms brettel, vienot and machado, mapped to pairwise distinct
\* matrices.
C10_Original ==
    /\ mode \in { "normal", "achromatopsia" }
          <=> (AlgorithmKeys(mode) = {} /\ "matrix" \in DOMAIN colorBlindMatrices[mode])
    /\ AlgorithmKeys(mode) # {}
          => /\ AlgorithmKeys(mode) = { "brettel", "vienot", "machado" }
             /\ \A a, b \in AlgorithmKeys(mode) :
                    a # b => colorBlindMatrices[mode].algorithms[a]
                                # colorBlindMatrices[mode].algorithms[b]

\* C12: after any sequence of mode and algorithm clicks the selected matrix
\* is defined and is a 3x3 matrix of the dataset: the single matrix of
\* normal and achromatopsia, otherwise the matrix under the current
\* algorithm, which is a key of the current mode's algorithms; machado, to
\* which a mode click resets, is a key of every mode with algorithms.
C12_MatrixDefined ==
    /\ mode \in Modes
    /\ IF mode = "normal" \/ mode = "achromatopsia"
       THEN /\ "matrix" \in DOMAIN colorBlindMatrices[mode]
            /\ SelectMatrix(mode, algorithm) = colorBlindMatrices[mode].matrix
       ELSE /\ algorithm \in AlgorithmKeys(mode)
            /\ "machado" \in AlgorithmKeys(mode)
            /\ SelectMatrix(mode, algorithm)
                  = colorBlindMatrices[mode].algorithms[algorithm]
    /\ (mode \in { "normal", "achromatopsia" } \/ algorithm \in AlgorithmKeys(mode))
          => /\ Is3x3(SelectMatrix(mode, algorithm))
             /\ SelectMatrix(mode, algorithm) \in DatasetMatrices

\* tritanopia entered by a mode click and vienot picked by an algorithm click
C12_Witness ==
    /\ mode = "tritanopia" /\ algorithm = "vienot"
    /\ SelectMatrix(mode, algorithm) = colorBlindMatrices.tritanopia.algorithms.vienot

\* C13: the hidden canvas holds nothing or the pixels of a source image,
\* never transformed data, and a frame on the output canvas is the transform
\* applied once, under the matrix and strength of the run that published
\* it, to the pixels of the source image.
C13_FrameFromSource ==
    /\ imageCanvas \in { << >> } \cup { ImagePixels(img) : img \in Images }
    /\ outputCanvas.frame # << >>
          => LET f == outputCanvas.frame[1]
             IN  f.data = ExpectedFrame[f.run.img, f.run.matrix, f.run.strength]

\* after a re-run: a frame under protanomaly that differs from its source,
\* and that the transform applied to it again would change
C13_Witness ==
    /\ started = 2 /\ runs = << >>
    /\ outputCanvas.frame # << >>
    /\ outputCanvas.frame[1].run.matrix[1] = "protanomaly"
    /\ imageCanvas = ImagePixels(outputCanvas.frame[1].run.img)
    /\ outputCanvas.frame[1].data # imageCanvas
    /\ TransformedPixels(outputCanvas.frame[1].data,
                         MatrixOf(outputCanvas.frame[1].run.matrix),
                         outputCanvas.frame[1].run.strength)
          # outputCanvas.frame[1].data

\* C14 as stated: loading is true exactly while at least one run is in
\* flight (started, and neither its onload completed nor its onerror fired).
C14_Original == loading <=> runs # << >>

\* C15 as stated: whenever the onload handler of a run executes, the output
\* canvas it publishes to is mounted.
C15_Original ==
    [][(\E k \in 1..MaxRuns : ImageLoad(k)) => outputCanvas.mounted]_vars

============================================================================
